---- MODULE Spec2Model ----
(***************************************************************************)
(* Graph feature engine and explainable risk scoring of the Bitcoin AML    *)
(* monitoring repository:                                                  *)
(*   src/features/transaction_features.py  (adjacency, degree, exposure)   *)
(*   src/risk/risk_scoring.py              (scoring, severity, alerts)     *)
(*                                                                         *)
(* The specifications share the variables:                                 *)
(*   SpecFeat   - the feature functions applied to an edge list and a      *)
(*                transaction table (SpecGraph, SpecTop: the neighbour     *)
(*                functions on the same kind of inputs);                   *)
(*   SpecScore  - add_risk_scores / score_transaction applied to one       *)
(*                feature record under one RiskConfig;                     *)
(*   SpecAlerts - get_alerts applied to a scored table;                    *)
(*   SpecFit    - fit_risk_config applied to the table of any stage of     *)
(*                the feature functions.                                   *)
(***************************************************************************)
EXTENDS Integers, Sequences, FiniteSets, TLC

VARIABLES
    pc,        \* which call has been made on the inputs of this behaviour
    edges,     \* the edge table: a sequence of <<txId1, txId2>>
    df,        \* the transaction table: a sequence of rows (records)
    adj,       \* the map returned by _build_undirected_adj
    out,       \* the table returned by add_fan_in_out / add_illicit_exposure
    nbrs2log,  \* per row, the set nbrs2 after line 85 of add_illicit_exposure
    top,       \* the call and the result of get_top_illicit_neighbors_for_tx
    row,       \* SpecScore: the feature record handed to score_transaction
    cfg,       \* SpecScore: the RiskConfig; SpecFit: the fit_risk_config call
               \* and its outcome
    scored,    \* SpecScore: the row returned by add_risk_scores
    df_scored, \* SpecAlerts: the scored table handed to get_alerts
    alerts     \* SpecAlerts: the call and the result of get_alerts

featVars == <<pc, edges, df, adj, out, nbrs2log, top>>
scoreVars == <<row, cfg, scored>>
alertVars == <<df_scored, alerts>>
vars == <<featVars, scoreVars, alertVars>>

(***************************************************************************)
(* Bounds of the feature model.                                            *)
(***************************************************************************)
MaxTx == 3
MaxEdges == 2
MaxGraphEdges == 3
MaxRows == 2
MaxK == 1

TxIds == 1..MaxTx
ClassNames == {"illicit", "licit", "unknown"}

\* All sequences over S of length at most n.
SeqsUpTo(S, n) == UNION {[1..k -> S] : k \in 0..n}

EdgeLists == SeqsUpTo(TxIds \X TxIds, MaxEdges)
GraphEdgeLists == SeqsUpTo(TxIds \X TxIds, MaxGraphEdges)

\* Transaction tables: one row per transaction 1..MaxRows, any label on
\* each.  Transactions MaxRows+1..MaxTx occur in edges only.
Tables ==
    {[i \in 1..MaxRows |-> [txId |-> i, class_name |-> c[i]]] :
        c \in [1..MaxRows -> ClassNames]}

(***************************************************************************)
(* Floats that the features produce: a ratio num/den kept in lowest terms, *)
(* the float NaN, and pandas' pd.NA object (which is not a float).         *)
(***************************************************************************)
RECURSIVE Gcd(_, _)
Gcd(a, b) == IF b = 0 THEN a ELSE Gcd(b, a % b)

NaN == [kind |-> "nan", num |-> 0, den |-> 0]
PdNA == [kind |-> "NA", num |-> 0, den |-> 0]
Float(n, d) == [kind |-> "float", num |-> n \div Gcd(n, d), den |-> d \div Gcd(n, d)]

IsNaN(x) == x.kind = "nan"

(***************************************************************************)
(* _build_undirected_adj                                                   *)
(***************************************************************************)
\* dict.get(key, set())
AdjGet(a, t) == IF t \in DOMAIN a THEN a[t] ELSE {}

\* adj[k].add(v) on a defaultdict(set): the key is created when missing.
AdjAdd(a, k, v) ==
    [x \in DOMAIN a \cup {k} |-> IF x = k THEN AdjGet(a, k) \cup {v} ELSE a[x]]

\* Mutant: the reverse direction is forgotten (a directed map).
AdjAddEdge_Directed(a, e) == AdjAdd(a, e[1], e[2])

\* The body of the loop over one edge: adj[a].add(b); adj[b].add(a).
AdjAddEdge(a, e) == AdjAdd(AdjAdd(a, e[1], e[2]), e[2], e[1])

RECURSIVE BuildFrom(_, _, _)
BuildFrom(a, es, i) ==
    IF i > Len(es) THEN a ELSE BuildFrom(AdjAddEdge(a, es[i]), es, i + 1)

EmptyAdj == [x \in {} |-> {}]

_build_undirected_adj(es) == BuildFrom(EmptyAdj, es, 1)

(***************************************************************************)
(* add_fan_in_out                                                          *)
(***************************************************************************)
\* Mutant: repeated edges are counted once.
ValueCounts_Dedup(es, col) ==
    [t \in {es[i][col] : i \in DOMAIN es} |->
        Cardinality({es[i] : i \in {j \in DOMAIN es : es[j][col] = t}})]

\* value_counts() of one edge column: occurrences of each value present.
ValueCounts(es, col) ==
    [t \in {es[i][col] : i \in DOMAIN es} |->
        Cardinality({i \in DOMAIN es : es[i][col] = t})]

\* merge(..., how="left") on txId, then fillna(0).astype(int).
MergeFill(counts, t) == IF t \in DOMAIN counts THEN counts[t] ELSE 0

add_fan_in_out(d, es) ==
    [i \in DOMAIN d |->
        d[i] @@ [fan_out_1hop |-> MergeFill(ValueCounts(es, 1), d[i].txId),
                 fan_in_1hop  |-> MergeFill(ValueCounts(es, 2), d[i].txId)]]

(***************************************************************************)
(* add_illicit_exposure                                                    *)
(***************************************************************************)
\* set(out.loc[out[class_col] == "illicit", txid_col])
build_illicit_set(d) == {d[i].txId : i \in {j \in DOMAIN d : d[j].class_name = "illicit"}}

\* Mutant: difference_update(nbrs1) is forgotten.
StrictTwoHop_KeepDirect(a, t) ==
    (UNION {AdjGet(a, n1) : n1 \in AdjGet(a, t)}) \ {t}

\* Lines 79-85: nbrs2 after the update loop, discard(t), difference_update.
StrictTwoHop(a, t) ==
    LET nbrs1 == AdjGet(a, t)
        upd   == UNION {AdjGet(a, n1) : n1 \in nbrs1}
    IN  (upd \ {t}) \ nbrs1

IllicitCount(S, ill) == Cardinality(S \cap ill)

\* count / denom.replace(0, pd.NA): pd.NA propagates through the division.
RatioObject(ic, nc) == IF nc = 0 THEN PdNA ELSE Float(ic, nc)

\* .astype("float") of one value, for a pandas whose replace(0, pd.NA) has
\* already produced the float NaN (legacy) and otherwise.
AsFloat(x) == IF x.kind = "NA" THEN NaN ELSE x

Exposure1(d, a, ill) ==
    [i \in DOMAIN d |->
        LET n == AdjGet(a, d[i].txId) IN
        d[i] @@ [nbr_count_1hop |-> Cardinality(n),
                 illicit_nbr_count_1hop |-> IllicitCount(n, ill),
                 illicit_nbr_ratio_1hop |->
                     AsFloat(RatioObject(IllicitCount(n, ill), Cardinality(n)))]]

Exposure2(o, a, ill) ==
    [i \in DOMAIN o |->
        LET n == StrictTwoHop(a, o[i].txId) IN
        o[i] @@ [nbr_count_2hop_strict |-> Cardinality(n),
                 illicit_nbr_count_2hop_strict |-> IllicitCount(n, ill),
                 illicit_nbr_ratio_2hop_strict |->
                     AsFloat(RatioObject(IllicitCount(n, ill), Cardinality(n)))]]

\* Whether the ratio column of a table holds pd.NA before .astype("float").
HasNA(d, a, hop) ==
    \E i \in DOMAIN d :
        Cardinality(IF hop = 1 THEN AdjGet(a, d[i].txId)
                               ELSE StrictTwoHop(a, d[i].txId)) = 0

(***************************************************************************)
(* get_top_illicit_neighbors_for_tx                                        *)
(***************************************************************************)
SetMin(S) == CHOOSE x \in S : \A y \in S : x <= y

\* sorted(list of a set of ints)
RECURSIVE Sorted(_)
Sorted(S) == IF S = {} THEN <<>> ELSE <<SetMin(S)>> \o Sorted(S \ {SetMin(S)})

\* Mutant: the last k entries, lst[len(lst) - k:].
Take_Last(s, k) ==
    SubSeq(s, (IF k < Len(s) THEN Len(s) - k ELSE 0) + 1, Len(s))

\* lst[:k] for k >= 0
Take(s, k) == SubSeq(s, 1, IF k < Len(s) THEN k ELSE Len(s))

get_top_illicit_neighbors_for_tx(txid, es, illicit_set, k) ==
    LET a     == _build_undirected_adj(es)
        nbrs1 == AdjGet(a, txid)
        nbrs2 == StrictTwoHop(a, txid)
    IN  [txid |-> txid, k |-> k, nbrs2 |-> nbrs2,
         top_illicit_neighbors_1hop |-> Take(Sorted(nbrs1 \cap illicit_set), k),
         top_illicit_neighbors_2hop_strict |-> Take(Sorted(nbrs2 \cap illicit_set), k)]

(***************************************************************************)
(* SpecFeat: each feature function called once on the inputs.              *)
(***************************************************************************)
NoTop == [txid |-> 0]
NoRow == [none |-> TRUE]
NoAlerts == [min_severity |-> ""]

InitFeat ==
    /\ pc = "inputs"
    /\ edges \in EdgeLists
    /\ df \in Tables
    /\ adj = EmptyAdj
    /\ out = <<>>
    /\ nbrs2log = <<>>
    /\ top = NoTop
    /\ row = NoRow /\ cfg = NoRow /\ scored = NoRow
    /\ df_scored = <<>> /\ alerts = NoAlerts

BuildUndirectedAdj ==
    /\ pc = "inputs"
    /\ adj' = _build_undirected_adj(edges)
    /\ pc' = "adj_built"
    /\ UNCHANGED <<edges, df, out, nbrs2log, top, scoreVars, alertVars>>

AddFanInOut ==
    /\ pc = "inputs"
    /\ out' = add_fan_in_out(df, edges)
    /\ pc' = "fan_done"
    /\ UNCHANGED <<edges, df, adj, nbrs2log, top, scoreVars, alertVars>>

\* add_illicit_exposure(df, edges, compute_2hop).  legacy_na stands for the
\* installed pandas: TRUE when Series.replace(0, pd.NA) on an integer column
\* yields the float NaN (pandas 1.x putmask), FALSE when it yields an object
\* column holding pd.NA (pandas 2.x), on which .astype("float") raises
\* TypeError since float(pd.NA) is not defined.
AddIllicitExposure(compute_2hop, legacy_na) ==
    /\ pc = "inputs"
    /\ LET ill == build_illicit_set(df)
           a   == _build_undirected_adj(edges)
           o1  == Exposure1(df, a, ill)
       IN  /\ adj' = a
           /\ IF ~legacy_na /\ HasNA(df, a, 1)
                 THEN /\ pc' = "exposure_raised"
                      /\ out' = <<>>
                      /\ nbrs2log' = <<>>
               ELSE IF ~compute_2hop
                 THEN /\ pc' = "exposure_done"
                      /\ out' = o1
                      /\ nbrs2log' = <<>>
               ELSE /\ nbrs2log' = [i \in DOMAIN df |-> StrictTwoHop(a, df[i].txId)]
                    /\ IF ~legacy_na /\ HasNA(df, a, 2)
                         THEN pc' = "exposure_raised" /\ out' = <<>>
                         ELSE pc' = "exposure_done" /\ out' = Exposure2(o1, a, ill)
    /\ UNCHANGED <<edges, df, top, scoreVars, alertVars>>

GetTopIllicitNeighbors(txid, k) ==
    /\ pc = "inputs"
    /\ top' = get_top_illicit_neighbors_for_tx(txid, edges, build_illicit_set(df), k)
    /\ pc' = "top_done"
    /\ UNCHANGED <<edges, df, adj, out, nbrs2log, scoreVars, alertVars>>

NextFeat ==
    \/ BuildUndirectedAdj
    \/ AddFanInOut
    \/ \E c \in BOOLEAN, l \in BOOLEAN : AddIllicitExposure(c, l)

SpecFeat == InitFeat /\ [][NextFeat]_vars

\* SpecGraph: the two functions that compute strict 2-hop sets, on longer
\* edge lists, the labels held fixed (no neighbour set depends on a label).
GraphTable == [i \in 1..MaxRows |-> [txId |-> i, class_name |-> "unknown"]]

\* SpecTop: get_top_illicit_neighbors_for_tx called with an illicit_set of
\* the caller's choosing (the parameter is any set, not only the one
\* build_illicit_set derives from the table).
WithIllicitSet(r, illicit_set) ==
    [f \in DOMAIN r \cup {"illicit_set"} |->
        IF f = "illicit_set" THEN illicit_set ELSE r[f]]

InitTop ==
    /\ pc = "inputs"
    /\ edges \in EdgeLists
    /\ df = GraphTable
    /\ adj = EmptyAdj
    /\ out = <<>>
    /\ nbrs2log = <<>>
    /\ top = NoTop
    /\ row = NoRow /\ cfg = NoRow /\ scored = NoRow
    /\ df_scored = <<>> /\ alerts = NoAlerts

GetTopForIllicitSet(txid, illicit_set, k) ==
    /\ pc = "inputs"
    /\ top' = WithIllicitSet(
                  get_top_illicit_neighbors_for_tx(txid, edges, illicit_set, k),
                  illicit_set)
    /\ pc' = "top_done"
    /\ UNCHANGED <<edges, df, adj, out, nbrs2log, scoreVars, alertVars>>

NextTop ==
    \E t \in TxIds, ill \in SUBSET TxIds, k \in 0..MaxK :
        GetTopForIllicitSet(t, ill, k)

SpecTop == InitTop /\ [][NextTop]_vars

InitGraph ==
    /\ pc = "inputs"
    /\ edges \in GraphEdgeLists
    /\ df = GraphTable
    /\ adj = EmptyAdj
    /\ out = <<>>
    /\ nbrs2log = <<>>
    /\ top = NoTop
    /\ row = NoRow /\ cfg = NoRow /\ scored = NoRow
    /\ df_scored = <<>> /\ alerts = NoAlerts

NextGraph ==
    \/ \E c \in BOOLEAN, l \in BOOLEAN : AddIllicitExposure(c, l)
    \/ \E t \in TxIds : GetTopIllicitNeighbors(t, MaxK)

SpecGraph == InitGraph /\ [][NextGraph]_vars

(***************************************************************************)
(* The graph read directly off the edge table, for stating the claims.     *)
(***************************************************************************)
\* v is joined to t by some edge, in either direction.
EdgeNbrs(t) ==
    {v \in TxIds : \E i \in DOMAIN edges : edges[i] = <<t, v>> \/ edges[i] = <<v, t>>}

\* Neighbours of neighbours, less t and less t's direct neighbours.
EdgeStrictTwoHop(t) ==
    {v \in TxIds : /\ v # t
                    /\ v \notin EdgeNbrs(t)
                    /\ \E n \in EdgeNbrs(t) : v \in EdgeNbrs(n)}

ExposureCalled == pc \in {"exposure_done", "exposure_raised"}

RatioAsClaimed(ratio, ic, nc) ==
    /\ IsNaN(ratio) <=> nc = 0
    /\ nc > 0 => /\ ratio.kind = "float"
                 /\ ratio.num * nc = ic * ratio.den
                 /\ ratio.den > 0

\* C1: after add_illicit_exposure, for every row and each hop level the
\* ratio is NaN exactly when the neighbour count is 0, equals illicit count /
\* neighbour count when the count is positive (0.0 when no neighbour is
\* illicit), and the output has a row for every input row.
C1_RatioNaNIffZeroCount ==
    ExposureCalled =>
        /\ pc = "exposure_done"
        /\ Len(out) = Len(df)
        /\ \A i \in DOMAIN df :
              /\ out[i].txId = df[i].txId
              /\ out[i].nbr_count_1hop = Cardinality(EdgeNbrs(df[i].txId))
              /\ RatioAsClaimed(out[i].illicit_nbr_ratio_1hop,
                                out[i].illicit_nbr_count_1hop,
                                out[i].nbr_count_1hop)
              /\ "nbr_count_2hop_strict" \in DOMAIN out[i] =>
                    RatioAsClaimed(out[i].illicit_nbr_ratio_2hop_strict,
                                   out[i].illicit_nbr_count_2hop_strict,
                                   out[i].nbr_count_2hop_strict)

\* C2: the strict 2-hop set of add_illicit_exposure and of
\* get_top_illicit_neighbors_for_tx is the union of the neighbour sets of
\* t's neighbours less t and less t's neighbours, so it never holds t nor a
\* 1-hop neighbour of t, whatever the edge list.
C2_StrictTwoHopSet ==
    /\ (ExposureCalled /\ nbrs2log # <<>>) =>
          \A i \in DOMAIN df :
              /\ nbrs2log[i] = EdgeStrictTwoHop(df[i].txId)
              /\ df[i].txId \notin nbrs2log[i]
              /\ nbrs2log[i] \cap EdgeNbrs(df[i].txId) = {}
    /\ pc = "top_done" =>
          /\ top.nbrs2 = EdgeStrictTwoHop(top.txid)
          /\ top.txid \notin top.nbrs2
          /\ top.nbrs2 \cap EdgeNbrs(top.txid) = {}

\* A triangle: t's neighbour n is also reached through the neighbour m, and
\* the call was on t.
C2_Witness ==
    /\ pc = "top_done"
    /\ \E n, m \in EdgeNbrs(top.txid) :
          /\ n # m /\ n # top.txid /\ m # top.txid
          /\ n \in EdgeNbrs(m)
    /\ top.nbrs2 = {}

\* C3: the map of _build_undirected_adj is symmetric; every edge (a, b)
\* puts b into adj[a] and a into adj[b]; a self-loop leaves a in its own
\* set; the empty edge list gives the empty map.
C3_AdjacencySymmetric ==
    pc = "adj_built" =>
        /\ \A a, b \in TxIds : b \in AdjGet(adj, a) <=> a \in AdjGet(adj, b)
        /\ \A i \in DOMAIN edges :
              /\ edges[i][1] \in DOMAIN adj /\ edges[i][2] \in DOMAIN adj
              /\ edges[i][2] \in adj[edges[i][1]]
              /\ edges[i][1] \in adj[edges[i][2]]
        /\ edges = <<>> => DOMAIN adj = {}

C3_Witness ==
    /\ pc = "adj_built"
    /\ \E i, j \in DOMAIN edges :
          /\ edges[i][1] = edges[i][2]
          /\ edges[j][1] # edges[j][2]
          /\ edges[i][1] \in adj[edges[i][1]]

\* C4: add_fan_in_out sets fan_out_1hop to the number of edge occurrences
\* with the transaction as txId1 and fan_in_1hop to the number with it as
\* txId2, repeated edges counted each time, 0 for a transaction in no edge;
\* the labels play no part and are left as they were.
C4_FanInOutCounts ==
    pc = "fan_done" =>
        /\ Len(out) = Len(df)
        /\ \A i \in DOMAIN df :
              /\ out[i].txId = df[i].txId
              /\ out[i].class_name = df[i].class_name
              /\ out[i].fan_out_1hop =
                    Cardinality({j \in DOMAIN edges : edges[j][1] = df[i].txId})
              /\ out[i].fan_in_1hop =
                    Cardinality({j \in DOMAIN edges : edges[j][2] = df[i].txId})
              /\ EdgeNbrs(df[i].txId) = {} =>
                    out[i].fan_out_1hop = 0 /\ out[i].fan_in_1hop = 0

\* A repeated edge counted twice, beside a transaction that is in no edge.
C4_Witness ==
    /\ pc = "fan_done"
    /\ \E i, j \in DOMAIN edges : i # j /\ edges[i] = edges[j]
    /\ \E i \in DOMAIN df : out[i].fan_out_1hop = 2
    /\ \E i \in DOMAIN df : EdgeNbrs(df[i].txId) = {} /\ out[i].fan_in_1hop = 0


(***************************************************************************)
(* risk_scoring.py: score_transaction and add_risk_scores                  *)
(***************************************************************************)
MaxDeg == 2

\* Python's None, and a column that the row does not have.
PyNone == [kind |-> "none", num |-> 0, den |-> 0]
Absent == [kind |-> "absent", num |-> 0, den |-> 0]

\* x >= y and x > 0 on floats: every comparison with NaN is False.
FGe(x, y) == /\ x.kind = "float" /\ y.kind = "float"
             /\ x.num * y.den >= y.num * x.den
FGtZero(x) == x.kind = "float" /\ x.num > 0

\* row.get(name, default)
RowGet(r, name, default) == IF name \in DOMAIN r THEN r[name] ELSE default

\* Mutant: a missing ratio is read as 0.0.
ToFloat_Zero(raw) == IF raw # PyNone /\ raw.kind # "nan" THEN raw ELSE Float(0, 1)

\* float(raw) if raw is not None else float("nan")
ToFloat(raw) == IF raw # PyNone THEN raw ELSE NaN

Bump(st, delta, reason) ==
    [score |-> st.score + delta, reasons |-> Append(st.reasons, reason)]

\* Lines 69-72.
NotComputableRule(st, exp1, exp2) ==
    LET s1 == IF IsNaN(exp1) THEN Bump(st, 0, "1-hop not computable") ELSE st
    IN  IF IsNaN(exp2) THEN Bump(s1, 0, "2-hop not computable") ELSE s1

\* Mutant: the second tier is an "if", not an "elif".
Exp1Rule_BothTiers(st, exp1, c) ==
    LET s1 == IF FGe(exp1, c.exp1_p99) /\ FGtZero(exp1)
                THEN Bump(st, 5, "1-hop extremely high") ELSE st
    IN  IF FGe(exp1, c.exp1_p95) /\ FGtZero(exp1)
          THEN Bump(s1, 3, "1-hop elevated") ELSE s1

\* Lines 74-79.
Exp1Rule(st, exp1, c) ==
    IF FGe(exp1, c.exp1_p99) /\ FGtZero(exp1)
      THEN Bump(st, 5, "1-hop extremely high")
    ELSE IF FGe(exp1, c.exp1_p95) /\ FGtZero(exp1)
      THEN Bump(st, 3, "1-hop elevated")
    ELSE st

\* Lines 81-86.
Exp2Rule(st, exp2, c) ==
    IF FGe(exp2, c.exp2_p99) /\ FGtZero(exp2)
      THEN Bump(st, 3, "2-hop extremely high")
    ELSE IF FGe(exp2, c.exp2_p95) /\ FGtZero(exp2)
      THEN Bump(st, 2, "2-hop elevated")
    ELSE st

\* Mutant: the degree rule is given the ratio rules' positivity guard.
FanOutRule_Guarded(st, fan_out, c) ==
    IF FGe(Float(fan_out, 1), c.fan_out_p99) /\ fan_out > 0
      THEN Bump(st, 2, "extreme fan-out")
    ELSE IF FGe(Float(fan_out, 1), c.fan_out_p95) /\ fan_out > 0
      THEN Bump(st, 1, "high fan-out")
    ELSE st

\* Lines 92-97.
FanOutRule(st, fan_out, c) ==
    IF FGe(Float(fan_out, 1), c.fan_out_p99)
      THEN Bump(st, 2, "extreme fan-out")
    ELSE IF FGe(Float(fan_out, 1), c.fan_out_p95)
      THEN Bump(st, 1, "high fan-out")
    ELSE st

\* Lines 99-104.
FanInRule(st, fan_in, c) ==
    IF FGe(Float(fan_in, 1), c.fan_in_p99)
      THEN Bump(st, 2, "extreme fan-in")
    ELSE IF FGe(Float(fan_in, 1), c.fan_in_p95)
      THEN Bump(st, 1, "high fan-in")
    ELSE st

score_transaction(r, c) ==
    LET exp1 == ToFloat(RowGet(r, "illicit_nbr_ratio_1hop", PyNone))
        exp2 == ToFloat(RowGet(r, "illicit_nbr_ratio_2hop_strict", PyNone))
        s0 == [score |-> 0, reasons |-> <<>>]
        s1 == NotComputableRule(s0, exp1, exp2)
        s2 == Exp1Rule(s1, exp1, c)
        s3 == Exp2Rule(s2, exp2, c)
        s4 == FanOutRule(s3, RowGet(r, "fan_out_1hop", 0), c)
    IN  FanInRule(s4, RowGet(r, "fan_in_1hop", 0), c)

\* Mutant: the critical band starts above 8.
severity_Above8(score) ==
    IF score > 8 THEN "critical"
    ELSE IF score >= 5 THEN "high"
    ELSE IF score >= 3 THEN "medium"
    ELSE "low"

\* Lines 127-134.
severity(score) ==
    IF score >= 8 THEN "critical"
    ELSE IF score >= 5 THEN "high"
    ELSE IF score >= 3 THEN "medium"
    ELSE "low"

\* add_risk_scores on one row of the table (apply is row by row).
add_risk_scores(r, c) ==
    LET res == score_transaction(r, c)
    IN  r @@ [risk_score |-> res.score,
              alert_reasons |-> res.reasons,
              severity |-> severity(res.score)]

(***************************************************************************)
(* SpecScore: one feature record scored under one RiskConfig.              *)
(***************************************************************************)
RawRatios == {Absent, PyNone, NaN, Float(0, 1), Float(1, 2), Float(1, 1)}
Degs == 0..MaxDeg

\* <<p99, p95>> of one column.  fit_risk_config takes both quantiles from
\* the same column, so they are NaN together (a column with no number).
ExpThresholds ==
    ({Float(0, 1), Float(1, 1)} \X {Float(0, 1), Float(1, 1)}) \cup {<<NaN, NaN>>}
DegThresholds ==
    {Float(0, 1), Float(MaxDeg, 1)} \X {Float(0, 1), Float(MaxDeg, 1)}

WithCol(r, name, v) == IF v = Absent THEN r ELSE r @@ (name :> v)

Rows ==
    {WithCol(WithCol([fan_out_1hop |-> fo, fan_in_1hop |-> fi],
                     "illicit_nbr_ratio_1hop", e1),
             "illicit_nbr_ratio_2hop_strict", e2) :
        fo \in Degs, fi \in Degs, e1 \in RawRatios, e2 \in RawRatios}

RiskConfigs ==
    {[fan_out_p99 |-> fo[1], fan_out_p95 |-> fo[2],
      fan_in_p99 |-> fi[1], fan_in_p95 |-> fi[2],
      exp1_p99 |-> e1[1], exp1_p95 |-> e1[2],
      exp2_p99 |-> e2[1], exp2_p95 |-> e2[2]] :
        fo \in DegThresholds, fi \in DegThresholds,
        e1 \in ExpThresholds, e2 \in ExpThresholds}

InitScore ==
    /\ pc = "features"
    /\ row \in Rows
    /\ cfg \in RiskConfigs
    /\ scored = NoRow
    /\ edges = <<>> /\ df = <<>> /\ adj = EmptyAdj /\ out = <<>>
    /\ nbrs2log = <<>> /\ top = NoTop
    /\ df_scored = <<>> /\ alerts = NoAlerts

AddRiskScores ==
    /\ pc = "features"
    /\ scored' = add_risk_scores(row, cfg)
    /\ pc' = "scored"
    /\ UNCHANGED <<edges, df, adj, out, nbrs2log, top, row, cfg, alertVars>>

NextScore == AddRiskScores

SpecScore == InitScore /\ [][NextScore]_vars

(***************************************************************************)
(* The scoring rules as the specification states them, on the inputs.      *)
(***************************************************************************)
\* The ratio of a hop level is a number (not NaN, not None, not absent).
Computable(r, name) == name \in DOMAIN r /\ r[name].kind = "float"

\* x >= thr for a number x; no number reaches a NaN threshold.
Reaches(n, d, thr) == thr.kind = "float" /\ n * thr.den >= thr.num * d

RatioDelta(r, name, p99, p95, hi, lo) ==
    IF ~Computable(r, name) \/ r[name].num = 0 THEN 0
    ELSE IF Reaches(r[name].num, r[name].den, p99) THEN hi
    ELSE IF Reaches(r[name].num, r[name].den, p95) THEN lo
    ELSE 0

DegDelta(d, p99, p95) ==
    IF Reaches(d, 1, p99) THEN 2 ELSE IF Reaches(d, 1, p95) THEN 1 ELSE 0

D1 == RatioDelta(row, "illicit_nbr_ratio_1hop", cfg.exp1_p99, cfg.exp1_p95, 5, 3)
D2 == RatioDelta(row, "illicit_nbr_ratio_2hop_strict", cfg.exp2_p99, cfg.exp2_p95, 3, 2)
DOut == DegDelta(row.fan_out_1hop, cfg.fan_out_p99, cfg.fan_out_p95)
DIn == DegDelta(row.fan_in_1hop, cfg.fan_in_p99, cfg.fan_in_p95)

Opt(cond, reason) == IF cond THEN <<reason>> ELSE <<>>

ReasonsInRuleOrder ==
    Opt(~Computable(row, "illicit_nbr_ratio_1hop"), "1-hop not computable")
    \o Opt(~Computable(row, "illicit_nbr_ratio_2hop_strict"), "2-hop not computable")
    \o Opt(D1 = 5, "1-hop extremely high") \o Opt(D1 = 3, "1-hop elevated")
    \o Opt(D2 = 3, "2-hop extremely high") \o Opt(D2 = 2, "2-hop elevated")
    \o Opt(DOut = 2, "extreme fan-out") \o Opt(DOut = 1, "high fan-out")
    \o Opt(DIn = 2, "extreme fan-in") \o Opt(DIn = 1, "high fan-in")

Occurrences(sq, x) == Cardinality({i \in DOMAIN sq : sq[i] = x})

\* C5: the score is the sum of four independent deltas, one tier at most
\* per feature (ratio tiers need ratio > 0, degree tiers have no such
\* guard), and the reasons come in rule-evaluation order.
C5_ScoreIsSumOfDeltas ==
    pc = "scored" =>
        /\ scored.risk_score = D1 + D2 + DOut + DIn
        /\ scored.alert_reasons = ReasonsInRuleOrder

\* A zero ratio against a zero threshold does not score, a zero fan-out
\* against a zero threshold does.
C5_Witness ==
    /\ pc = "scored"
    /\ Computable(row, "illicit_nbr_ratio_1hop")
    /\ row.illicit_nbr_ratio_1hop.num = 0
    /\ cfg.exp1_p99 = Float(0, 1)
    /\ row.fan_out_1hop = 0
    /\ cfg.fan_out_p99 = Float(0, 1)
    /\ Occurrences(scored.alert_reasons, "extreme fan-out") = 1
    /\ Occurrences(scored.alert_reasons, "1-hop extremely high") = 0
    /\ scored.risk_score = D2 + 2 + DIn

\* Every rule 2-5 fires at its p99 tier.
AllTopTiers == D1 = 5 /\ D2 = 3 /\ DOut = 2 /\ DIn = 2

\* C6 as stated: the score is a non-negative integer and rules 2-5
\* together reach a maximum of 17.
C6_MaxIsSeventeen ==
    pc = "scored" =>
        /\ scored.risk_score \in Nat
        /\ scored.risk_score <= 17
        /\ AllTopTiers => scored.risk_score = 17

\* C6 as amended: the score is a non-negative integer and rules 2-5
\* together reach a maximum of 5 + 3 + 2 + 2 = 12, the two tiers of a rule
\* being mutually exclusive.
C6_MaxIsTwelve ==
    pc = "scored" =>
        /\ scored.risk_score \in Nat
        /\ scored.risk_score <= 5 + 3 + 2 + 2
        /\ AllTopTiers => scored.risk_score = 5 + 3 + 2 + 2

C6_Witness == pc = "scored" /\ AllTopTiers /\ scored.risk_score = 12

SeverityRank(sev) ==
    CASE sev = "low" -> 0 [] sev = "medium" -> 1
      [] sev = "high" -> 2 [] sev = "critical" -> 3

\* C7: severity is a function of the row's risk_score alone, by the
\* breakpoints 8 / 5 / 3, and is monotone non-decreasing in the score.
C7_SeverityBands ==
    pc = "scored" =>
        /\ scored.risk_score >= 8 => scored.severity = "critical"
        /\ scored.risk_score \in 5..7 => scored.severity = "high"
        /\ scored.risk_score \in 3..4 => scored.severity = "medium"
        /\ scored.risk_score <= 2 => scored.severity = "low"
        /\ \A lower \in 0..scored.risk_score :
              SeverityRank(severity(lower)) <= SeverityRank(scored.severity)

\* A row at the lower edge of the critical band.
C7_Witness ==
    pc = "scored" /\ scored.risk_score = 8 /\ scored.severity = "critical"

\* C8: a ratio that is NaN, None or absent adds its "not computable" reason
\* exactly once, adds nothing to the score (which is then the score of the
\* other three features), and is not read as 0.0; a computable ratio never
\* gets that reason.
C8_NotComputableRatio ==
    pc = "scored" =>
        /\ Occurrences(scored.alert_reasons, "1-hop not computable") =
              (IF Computable(row, "illicit_nbr_ratio_1hop") THEN 0 ELSE 1)
        /\ Occurrences(scored.alert_reasons, "2-hop not computable") =
              (IF Computable(row, "illicit_nbr_ratio_2hop_strict") THEN 0 ELSE 1)
        /\ ~Computable(row, "illicit_nbr_ratio_1hop") =>
              scored.risk_score = D2 + DOut + DIn
        /\ ~Computable(row, "illicit_nbr_ratio_2hop_strict") =>
              scored.risk_score = D1 + DOut + DIn

\* The 2-hop columns are absent, the 1-hop ratio is NaN, and the degrees
\* alone score.
C8_Witness ==
    /\ pc = "scored"
    /\ "illicit_nbr_ratio_2hop_strict" \notin DOMAIN row
    /\ "illicit_nbr_ratio_1hop" \in DOMAIN row
    /\ row.illicit_nbr_ratio_1hop = NaN
    /\ scored.alert_reasons[1] = "1-hop not computable"
    /\ scored.alert_reasons[2] = "2-hop not computable"
    /\ scored.risk_score = 4

(***************************************************************************)
(* risk_scoring.py: get_alerts                                             *)
(***************************************************************************)
MaxAlertRows == 3

Severities == {"low", "medium", "high", "critical"}

\* Line 148.
order == [low |-> 0, medium |-> 1, high |-> 2, critical |-> 3]

\* Mutant: rows at the cutoff itself are left out.
FilterAlerts_Above(rows, cutoff) ==
    SelectSeq(rows, LAMBDA r : order[r.severity] > cutoff)

\* Line 151: df_scored[df_scored["severity"].map(order) >= cutoff]
FilterAlerts(rows, cutoff) ==
    SelectSeq(rows, LAMBDA r : order[r.severity] >= cutoff)

Reorderings(rows) ==
    {[i \in DOMAIN rows |-> rows[p[i]]] : p \in Permutations(DOMAIN rows)}

NonIncreasing(rows) ==
    \A i, j \in DOMAIN rows : i < j => rows[i].risk_score >= rows[j].risk_score

\* Mutant: the rows are returned in any order.
sort_values_Unsorted(rows) == Reorderings(rows)

\* Line 152: sort_values(["risk_score"], ascending=False) with the default
\* kind="quicksort", which pandas documents as not stable: every descending
\* arrangement of the rows is a possible result.
sort_values(rows) == {s \in Reorderings(rows) : NonIncreasing(s)}

\* Scores score_transaction can return (each a sum of one delta per
\* rule): the two ends of every severity band.
BandEdgeScores ==
    {e1 + e2 + fo + fi :
        e1 \in {0, 3, 5}, e2 \in {0, 2, 3}, fo \in {0, 2}, fi \in {0, 2}}
        \cap {0, 2, 3, 4, 5, 7, 8, 12}

\* Scored tables: row i has txId i, so txId order is input order.
ScoredTables ==
    UNION {{[i \in 1..n |-> [txId |-> i, risk_score |-> sc[i],
                             severity |-> severity(sc[i])]] :
              sc \in [1..n -> BandEdgeScores]} : n \in 0..MaxAlertRows}

InitAlerts ==
    /\ pc = "scored_table"
    /\ df_scored \in ScoredTables
    /\ alerts = NoAlerts
    /\ edges = <<>> /\ df = <<>> /\ adj = EmptyAdj /\ out = <<>>
    /\ nbrs2log = <<>> /\ top = NoTop
    /\ row = NoRow /\ cfg = NoRow /\ scored = NoRow

\* Strings a caller may pass that are not keys of order: another word, the
\* empty string, and keys in another letter case (dict keys are compared
\* exactly).
UnknownSeverities == {"urgent", "", "Medium", "HIGH"}

\* Mutant: order.get(min_severity, 0), an unknown name ranking as "low".
OrderLookup_Default(min_severity) ==
    [raised |-> FALSE,
     cutoff |-> IF min_severity \in DOMAIN order THEN order[min_severity] ELSE 0]

\* Line 149: cutoff = order[min_severity]; a dict subscript raises KeyError
\* on a missing key.
OrderLookup(min_severity) ==
    IF min_severity \in DOMAIN order
        THEN [raised |-> FALSE, cutoff |-> order[min_severity]]
        ELSE [raised |-> TRUE, cutoff |-> 0]

GetAlerts(min_severity) ==
    /\ pc = "scored_table"
    /\ LET l == OrderLookup(min_severity)
       IN  IF l.raised
             THEN /\ alerts' = [min_severity |-> min_severity, raised |-> "KeyError"]
                  /\ pc' = "alerts_raised"
             ELSE /\ \E res \in sort_values(FilterAlerts(df_scored, l.cutoff)) :
                        alerts' = [min_severity |-> min_severity, rows |-> res]
                  /\ pc' = "alerts_done"
    /\ UNCHANGED <<edges, df, adj, out, nbrs2log, top, scoreVars, df_scored>>

NextAlerts == \E m \in Severities \cup UnknownSeverities : GetAlerts(m)

SpecAlerts == InitAlerts /\ [][NextAlerts]_vars

\* The rank order of the specification, written out.
RankOf(sev) ==
    CASE sev = "low" -> 0 [] sev = "medium" -> 1
      [] sev = "high" -> 2 [] sev = "critical" -> 3

Selected ==
    {i \in DOMAIN df_scored :
        RankOf(df_scored[i].severity) >= RankOf(alerts.min_severity)}

C10_TiesKeepInputOrder ==
    pc = "alerts_done" =>
        \A i, j \in DOMAIN alerts.rows :
            (i < j /\ alerts.rows[i].risk_score = alerts.rows[j].risk_score)
                => alerts.rows[i].txId < alerts.rows[j].txId

\* C10 as amended: the returned rows of one risk_score form one contiguous
\* block holding each selected row of that score once; inside the block the
\* order is whatever the unstable sort leaves.
C10_TiesFormOneBlock ==
    pc = "alerts_done" =>
        /\ \A i, j, k \in DOMAIN alerts.rows :
              (i < k /\ k < j /\ alerts.rows[i].risk_score = alerts.rows[j].risk_score)
                  => alerts.rows[k].risk_score = alerts.rows[i].risk_score
        /\ \A i, j \in DOMAIN alerts.rows :
              alerts.rows[i].txId = alerts.rows[j].txId => i = j
        /\ \A t \in Selected : \E i \in DOMAIN alerts.rows : alerts.rows[i].txId = t

\* Two tied rows returned in the reverse of their input order.
C10_Witness ==
    /\ pc = "alerts_done"
    /\ \E i, j \in DOMAIN alerts.rows :
          /\ i < j
          /\ alerts.rows[i].risk_score = alerts.rows[j].risk_score
          /\ alerts.rows[i].txId > alerts.rows[j].txId

\* C11: get_alerts called with a min_severity that is not one of low,
\* medium, high, critical raises at the rank lookup and returns no rows,
\* whatever the scored table (the empty one included); with one of the four
\* names it does not raise.
C11_UnknownSeverityRaises ==
    pc \in {"alerts_done", "alerts_raised"} =>
        /\ alerts.min_severity \notin {"low", "medium", "high", "critical"} =>
              /\ pc = "alerts_raised"
              /\ "rows" \notin DOMAIN alerts
              /\ alerts.raised = "KeyError"
        /\ alerts.min_severity \in {"low", "medium", "high", "critical"} =>
              pc = "alerts_done"

\* The call fails on the empty table under a name that differs from a key
\* only by letter case.
C11_Witness ==
    /\ pc = "alerts_raised"
    /\ df_scored = <<>>
    /\ alerts.min_severity = "Medium"

(***************************************************************************)
(* get_top_illicit_neighbors_for_tx against the edge table.                *)
(***************************************************************************)
ListSet(lst) == {lst[i] : i \in DOMAIN lst}

\* The members of S with fewer than k members of S below them.
KSmallest(S, k) == {x \in S : Cardinality({y \in S : y < x}) < k}

\* lst holds the k smallest members of S (all of S when it has fewer than
\* k), ascending, each once.
IsTopK(lst, S, k) ==
    /\ ListSet(lst) = KSmallest(S, k)
    /\ Len(lst) = (IF k < Cardinality(S) THEN k ELSE Cardinality(S))
    /\ \A i, j \in DOMAIN lst : i < j => lst[i] < lst[j]

RequiredCols ==
    <<"fan_out_1hop", "fan_in_1hop",
      "illicit_nbr_ratio_1hop", "illicit_nbr_ratio_2hop_strict">>

TwoHopCols ==
    {"nbr_count_2hop_strict", "illicit_nbr_count_2hop_strict",
     "illicit_nbr_ratio_2hop_strict"}

\* The columns of a table with at least one row.
Columns(t) == DOMAIN t[1]

\* df.drop(columns=...): the table a caller passes may lack any column.
DropCols(t, cs) ==
    [i \in DOMAIN t |-> [c \in Columns(t) \ cs |-> t[i][c]]]

\* The exception raised by base[col] on a missing column.
KeyError == [kind |-> "KeyError", num |-> 0, den |-> 0]

\* One cell as a float: the fan columns hold ints, the ratio columns floats.
CellFloat(v, col) ==
    IF col \in {"fan_out_1hop", "fan_in_1hop"} THEN Float(v, 1) ELSE v

RatLe(x, y) == x.num * y.den <= y.num * x.den

RemoveAt(s, i) == SubSeq(s, 1, i - 1) \o SubSeq(s, i + 1, Len(s))

RECURSIVE SortRats(_)
SortRats(s) ==
    IF s = <<>> THEN <<>>
    ELSE LET i == CHOOSE i \in DOMAIN s : \A j \in DOMAIN s : RatLe(s[i], s[j])
         IN  <<s[i]>> \o SortRats(RemoveAt(s, i))

\* x + (fr / pd) * (y - x) for floats x <= y.
Interpolate(x, y, fr, pd) ==
    Float(x.num * y.den * pd + fr * (y.num * x.den - x.num * y.den),
          x.den * y.den * pd)

\* Series.quantile(pn / pd), interpolation="linear": NaN cells are left
\* out, an empty column gives NaN, otherwise the value at position
\* (n - 1) * p of the sorted cells, interpolated between its neighbours.
Quantile(cells, pn, pd) ==
    LET xs == SortRats(SelectSeq(cells, LAMBDA v : ~IsNaN(v)))
        n  == Len(xs)
        lo == ((n - 1) * pn) \div pd
        fr == ((n - 1) * pn) % pd
    IN  IF n = 0 THEN NaN
        ELSE IF fr = 0 THEN xs[lo + 1]
        ELSE Interpolate(xs[lo + 1], xs[lo + 2], fr, pd)

\* Mutant: a missing column yields a default threshold instead of raising,
\* base.get(col, pd.Series(dtype=float)).quantile(p).
q_Default(base, cols, col, pn) ==
    IF col \notin cols THEN NaN
    ELSE Quantile([i \in DOMAIN base |-> CellFloat(base[i][col], col)], pn, 100)

\* Lines 37-38: float(base[col].quantile(p)); base[col] raises KeyError when
\* the table has no such column.
q(base, cols, col, pn) ==
    IF col \notin cols THEN KeyError
    ELSE Quantile([i \in DOMAIN base |-> CellFloat(base[i][col], col)], pn, 100)

\* fit_risk_config(df_feat, use_known_only): the eight q calls in argument
\* order; the first that raises ends the call before RiskConfig is built.
fit_risk_config(df_feat, use_known_only) ==
    LET cols == Columns(df_feat)
        base == IF use_known_only
                  THEN SelectSeq(df_feat,
                                 LAMBDA r : r.class_name \in {"illicit", "licit"})
                  ELSE df_feat
        t(c, pn) == q(base, cols, RequiredCols[c], pn)
        calls == <<t(1, 99), t(1, 95), t(2, 99), t(2, 95),
                   t(3, 99), t(3, 95), t(4, 99), t(4, 95)>>
        failed == {i \in DOMAIN calls : calls[i] = KeyError}
    IN  IF failed # {}
          THEN [raised |-> "KeyError", key |-> RequiredCols[(SetMin(failed) + 1) \div 2]]
          ELSE [raised |-> "",
                config |-> [fan_out_p99 |-> calls[1], fan_out_p95 |-> calls[2],
                            fan_in_p99 |-> calls[3], fan_in_p95 |-> calls[4],
                            exp1_p99 |-> calls[5], exp1_p95 |-> calls[6],
                            exp2_p99 |-> calls[7], exp2_p95 |-> calls[8]]]

(***************************************************************************)
(* SpecFit: the feature functions applied in sequence to one labelled      *)
(* table, and fit_risk_config called on the table of any stage.            *)
(***************************************************************************)
\* One row per transaction 1..MaxRows, the labels cycling through illicit,
\* unknown, licit so that use_known_only drops a row.
FitLabel(i) ==
    IF i % 3 = 1 THEN "illicit" ELSE IF i % 3 = 2 THEN "unknown" ELSE "licit"

FitTable == [i \in 1..MaxRows |-> [txId |-> i, class_name |-> FitLabel(i)]]

InitFit ==
    /\ pc = "inputs"
    /\ edges \in EdgeLists
    /\ df = FitTable
    /\ adj = EmptyAdj
    /\ out = <<>>
    /\ nbrs2log = <<>>
    /\ top = NoTop
    /\ row = NoRow /\ cfg = NoRow /\ scored = NoRow
    /\ df_scored = <<>> /\ alerts = NoAlerts

\* The table the next call of this behaviour receives.
CurrentTable == IF pc = "inputs" THEN df ELSE out

\* add_illicit_exposure on the table of the current stage; the stage reached
\* records compute_2hop.
AddIllicitExposureStage(compute_2hop, legacy_na) ==
    /\ pc \in {"inputs", "fan_done"}
    /\ LET d   == CurrentTable
           ill == build_illicit_set(d)
           a   == _build_undirected_adj(edges)
           o1  == Exposure1(d, a, ill)
       IN  /\ adj' = a
           /\ IF ~legacy_na /\ HasNA(d, a, 1)
                 THEN /\ pc' = "exposure_raised"
                      /\ out' = <<>>
                      /\ nbrs2log' = <<>>
               ELSE IF ~compute_2hop
                 THEN /\ pc' = "exposure_1hop_done"
                      /\ out' = o1
                      /\ nbrs2log' = <<>>
               ELSE /\ nbrs2log' = [i \in DOMAIN d |-> StrictTwoHop(a, d[i].txId)]
                    /\ IF ~legacy_na /\ HasNA(d, a, 2)
                         THEN pc' = "exposure_raised" /\ out' = <<>>
                         ELSE pc' = "exposure_2hop_done" /\ out' = Exposure2(o1, a, ill)
    /\ UNCHANGED <<edges, df, top, scoreVars, alertVars>>

FitStages == {"inputs", "fan_done", "exposure_1hop_done", "exposure_2hop_done"}

\* fit_risk_config on the table of the current stage less the columns in
\* absent.  cfg holds the call and its outcome.
FitRiskConfig(use_known_only, absent) ==
    /\ pc \in FitStages
    /\ LET df_feat == DropCols(CurrentTable, absent)
           res     == fit_risk_config(df_feat, use_known_only)
       IN  /\ cfg' = [after |-> pc, use_known_only |-> use_known_only,
                      columns |-> Columns(df_feat)] @@ res
           /\ pc' = IF res.raised = "" THEN "fit_done" ELSE "fit_raised"
    /\ UNCHANGED <<edges, df, adj, out, nbrs2log, top, row, scored, alertVars>>

\* Tables a caller passes: a stage's table as it is, or less one required
\* column.
AbsentChoices == {{}} \cup {{RequiredCols[i]} : i \in DOMAIN RequiredCols}

NextFit ==
    \/ AddFanInOut
    \/ \E c \in BOOLEAN, l \in BOOLEAN : AddIllicitExposureStage(c, l)
    \/ \E u \in BOOLEAN, ab \in AbsentChoices : FitRiskConfig(u, ab)

SpecFit == InitFit /\ [][NextFit]_vars

RequiredColSet == {RequiredCols[i] : i \in DOMAIN RequiredCols}

FitCalled == pc \in {"fit_done", "fit_raised"}

\* C12: fit_risk_config raises and produces no RiskConfig whenever one of
\* fan_out_1hop, fan_in_1hop, illicit_nbr_ratio_1hop,
\* illicit_nbr_ratio_2hop_strict is not a column of its input table; a table
\* returned by add_illicit_exposure with compute_2hop=False has none of the
\* three 2-hop columns, so the call fails on it.
C12_FitRaisesOnAbsentColumn ==
    FitCalled =>
        /\ ~(RequiredColSet \subseteq cfg.columns) =>
              /\ pc = "fit_raised"
              /\ "config" \notin DOMAIN cfg
              /\ cfg.key \in RequiredColSet \ cfg.columns
        /\ cfg.after = "exposure_1hop_done" =>
              /\ TwoHopCols \cap cfg.columns = {}
              /\ pc = "fit_raised"
              /\ "config" \notin DOMAIN cfg

\* The call fails on the whole table of add_fan_in_out followed by
\* add_illicit_exposure(compute_2hop=False): six quantiles are computed and
\* the seventh finds no 2-hop ratio column.
C12_Witness ==
    /\ pc = "fit_raised"
    /\ cfg.after = "exposure_1hop_done"
    /\ cfg.columns \cap RequiredColSet =
          {"fan_out_1hop", "fan_in_1hop", "illicit_nbr_ratio_1hop"}
    /\ cfg.key = "illicit_nbr_ratio_2hop_strict"

====
